---- MODULE Spec2Model ----
(***************************************************************************)
(* Model of benford.py: conformance of count data to Benford's Law.        *)
(*                                                                         *)
(* Python floats are IEEE-754 binary64 values.  They are modelled exactly: *)
(* a non-negative double is a 53-bit significand (a sequence of bits, most *)
(* significant first) and the exponent of its last bit, and every float    *)
(* operation of the source rounds its exact result to nearest, ties to     *)
(* even.                                                                   *)
(***************************************************************************)
EXTENDS Integers, Sequences, FiniteSets, TLC

(***************************************************************************)
(* Binary64 arithmetic                                                     *)
(***************************************************************************)

\* number of significand bits of a Python float
PREC == 53

\* the float 0.0
FZero == [bits |-> <<>>, e |-> 0]

Zeros(n) == [k \in 1..n |-> 0]

\* width of the chunks the long operations work in
CHUNK == 13

\* number of binary digits of a natural number below 2^30
BitLen(n) == CHOOSE l \in 0..30 : n < 2^l /\ (l = 0 \/ n >= 2^(l - 1))

\* the last w binary digits of n, most significant first
NatBitsW(n, w) == [k \in 1..w |-> (n \div 2^(w - k)) % 2]

\* binary digits of a natural number, most significant first, <<>> for 0
NatBits(n) == NatBitsW(n, BitLen(n))

RECURSIVE BitsNat(_)
\* the natural number a bit sequence denotes
BitsNat(b) ==
    IF b = <<>> THEN 0
    ELSE IF Len(b) = 1 THEN b[1]
    ELSE LET h == Len(b) \div 2
         IN  BitsNat(SubSeq(b, 1, h)) * 2^(Len(b) - h)
                 + BitsNat(SubSeq(b, h + 1, Len(b)))

\* a bit sequence without its leading zeros
Normalize(b) ==
    IF \A k \in 1..Len(b) : b[k] = 0 THEN <<>>
    ELSE LET f == CHOOSE k \in 1..Len(b) :
                      b[k] = 1 /\ \A l \in 1..(k - 1) : b[l] = 0
         IN  SubSeq(b, f, Len(b))

\* the j-th chunk of a bit sequence whose length is a multiple of CHUNK
ChunkVal(b, j) == BitsNat(SubSeq(b, (j - 1) * CHUNK + 1, j * CHUNK))

\* zeros that bring a length up to a multiple of CHUNK
PadTo(n) == (CHUNK - (n % CHUNK)) % CHUNK

\* the next float above the 53-bit significand bits * 2^e
FIncr(bits, e) ==
    IF \A k \in 1..PREC : bits[k] = 1
    THEN [bits |-> <<1>> \o Zeros(PREC - 1), e |-> e + 1]
    ELSE LET j == CHOOSE k \in 1..PREC :
                      /\ bits[k] = 0
                      /\ \A l \in (k + 1)..PREC : bits[l] = 1
         IN  [bits |-> [k \in 1..PREC |->
                          IF k < j THEN bits[k] ELSE IF k = j THEN 1 ELSE 0],
              e |-> e]

\* round the exact value sig * 2^e (plus a non-zero residue below the last
\* bit of sig when sticky) to the nearest float, ties to even; sig has no
\* leading zero
RoundBits(sig, e, sticky) ==
    LET n == Len(sig) IN
    IF n = 0 THEN FZero
    ELSE IF n <= PREC
    THEN [bits |-> sig \o Zeros(PREC - n), e |-> e - (PREC - n)]
    ELSE LET kept == SubSeq(sig, 1, PREC)
             st   == sticky \/ \E k \in (PREC + 2)..n : sig[k] = 1
             up   == sig[PREC + 1] = 1 /\ (st \/ kept[PREC] = 1)
             e2   == e + (n - PREC)
         IN  IF up THEN FIncr(kept, e2) ELSE [bits |-> kept, e |-> e2]

RECURSIVE DivLoop(_, _, _, _, _)
\* long division of a bit sequence by d < 2^17, a chunk at a time: acc is
\* the quotient so far, r the remainder, j the next chunk
DivLoop(sig, d, j, r, acc) ==
    IF j * CHUNK > Len(sig) THEN [q |-> acc, r |-> r]
    ELSE LET t == r * 2^CHUNK + ChunkVal(sig, j)
         IN  DivLoop(sig, d, j + 1, t % d, acc \o NatBitsW(t \div d, CHUNK))

\* the float nearest (sig * 2^e) / d: the division is carried f bits into
\* the fraction, far enough for the quotient to have more than PREC bits
DivBits(sig, e, d) ==
    LET f0  == PREC + 1 + BitLen(d)
        f   == f0 + PadTo(Len(sig) + f0)
        res == DivLoop(sig \o Zeros(f), d, 1, 0, <<>>)
    IN  RoundBits(Normalize(res.q), e - f, res.r # 0)

\* int / int (true division) and decimal literals: the float nearest a / b
RoundRat(a, b) == IF a = 0 THEN FZero ELSE DivBits(NatBits(a), 0, b)

\* float(n) for a natural number n
FFromInt(n) == RoundRat(n, 1)

\* float / int
FDivInt(x, d) == IF x.bits = <<>> THEN FZero ELSE DivBits(x.bits, x.e, d)

RECURSIVE MulLoop(_, _, _, _, _)
\* bits of sig * n for n < 2^17, from the last chunk of sig upwards
MulLoop(sig, n, j, carry, acc) ==
    IF j = 0 THEN NatBits(carry) \o acc
    ELSE LET t == ChunkVal(sig, j) * n + carry
         IN  MulLoop(sig, n, j - 1, t \div 2^CHUNK,
                     NatBitsW(t % 2^CHUNK, CHUNK) \o acc)

\* float * int
FMulInt(x, n) ==
    IF x.bits = <<>> \/ n = 0 THEN FZero
    ELSE LET sig == Zeros(PadTo(PREC)) \o x.bits
         IN  RoundBits(Normalize(MulLoop(sig, n, Len(sig) \div CHUNK, 0, <<>>)),
                       x.e, FALSE)

RECURSIVE AddLoop(_, _, _, _, _)
\* bits of a + b for two bit sequences of equal length, from the last chunk
AddLoop(a, b, j, carry, acc) ==
    IF j = 0 THEN NatBits(carry) \o acc
    ELSE LET t == ChunkVal(a, j) + ChunkVal(b, j) + carry
         IN  AddLoop(a, b, j - 1, t \div 2^CHUNK,
                     NatBitsW(t % 2^CHUNK, CHUNK) \o acc)

\* float + float
FAdd(x, y) ==
    IF x.bits = <<>> THEN y
    ELSE IF y.bits = <<>> THEN x
    ELSE LET lo == IF x.e <= y.e THEN x.e ELSE y.e
             xa == x.bits \o Zeros(x.e - lo)
             ya == y.bits \o Zeros(y.e - lo)
             m  == IF Len(xa) >= Len(ya) THEN Len(xa) ELSE Len(ya)
             n  == m + PadTo(m)
             xp == Zeros(n - Len(xa)) \o xa
             yp == Zeros(n - Len(ya)) \o ya
         IN  RoundBits(Normalize(AddLoop(xp, yp, n \div CHUNK, 0, <<>>)),
                       lo, FALSE)

\* float < float
FLess(x, y) ==
    IF y.bits = <<>> THEN FALSE
    ELSE IF x.bits = <<>> THEN TRUE
    ELSE IF x.e # y.e THEN x.e < y.e
    ELSE \E k \in 1..PREC :
            /\ x.bits[k] < y.bits[k]
            /\ \A l \in 1..(k - 1) : x.bits[l] = y.bits[l]

\* int(float): truncation toward zero
FTrunc(x) ==
    IF x.bits = <<>> THEN 0
    ELSE IF x.e >= 0 THEN BitsNat(x.bits \o Zeros(x.e))
    ELSE IF -x.e >= PREC THEN 0
    ELSE BitsNat(SubSeq(x.bits, 1, PREC + x.e))

(***************************************************************************)
(* Constants of the program                                                *)
(***************************************************************************)

\* the literals of BENFORD, in tenths of a percent
BENFORD_TENTHS == <<301, 176, 125, 97, 79, 67, 58, 51, 46>>

\* BENFORD: the floats the nine decimal literals denote
BENFORD == [d \in 1..9 |-> RoundRat(BENFORD_TENTHS[d], 10)]

\* the float the literal 15.51 denotes
CRITICAL == RoundRat(1551, 100)

\* load_data prompts while count <= 5
RETRY_LIMIT == 5

\* range(0, 9) and range(1, 10): the nine leading digits
NDIGITS == 9

(***************************************************************************)
(* Text: a character is a one-character string, a string a sequence of     *)
(* characters                                                              *)
(***************************************************************************)

\* characters str.isdigit() accepts: the ASCII digits and the other Unicode
\* digits, here SUPERSCRIPT TWO
DigitChars == {"0", "1", "2", "3", "4", "5", "6", "7", "8", "9", "²"}

\* characters str.strip() removes
Whitespace == {" ", "\n"}

\* the characters of the model in code point order, as sorted() compares keys
CodeOrder ==
    <<"\n", " ", "-", ".", "0", "1", "2", "3", "4", "5", "6", "7", "8", "9",
      "a", "²">>

Code(c) == CHOOSE k \in 1..Len(CodeOrder) : CodeOrder[k] = c

\* str.isdigit(): non-empty and every character a digit
IsDigit(sample) == sample # <<>> /\ \A k \in 1..Len(sample) : sample[k] \in DigitChars

\* a faulty variant of the test below: no check for a leading '0'
IsBadSampleNoZero(sample) ==
    \/ \E k \in 1..Len(sample) : sample[k] = "."
    \/ ~IsDigit(sample)

\* the test of count_first_digits on one sample
IsBadSample(sample) ==
    \/ (sample # <<>> /\ sample[1] = "0")
    \/ \E k \in 1..Len(sample) : sample[k] = "."
    \/ ~IsDigit(sample)

RECURSIVE LStrip(_)
LStrip(s) == IF s # <<>> /\ Head(s) \in Whitespace THEN LStrip(Tail(s)) ELSE s

RECURSIVE RStrip(_)
RStrip(s) ==
    IF s # <<>> /\ s[Len(s)] \in Whitespace
    THEN RStrip(SubSeq(s, 1, Len(s) - 1)) ELSE s

\* str.strip()
Strip(s) == RStrip(LStrip(s))

RECURSIVE SplitLoop(_, _, _, _)
SplitLoop(s, k, cur, acc) ==
    IF k > Len(s) THEN Append(acc, cur)
    ELSE IF s[k] = "\n" THEN SplitLoop(s, k + 1, <<>>, Append(acc, cur))
    ELSE SplitLoop(s, k + 1, Append(cur, s[k]), acc)

\* a faulty variant of the split below: no element for an empty string, as
\* str.split() without a separator
SplitDropEmpty(s) == IF s = <<>> THEN <<>> ELSE SplitLoop(s, 1, <<>>, <<>>)

\* str.split('\n')
Split(s) == SplitLoop(s, 1, <<>>, <<>>)

\* f.read().strip().split('\n')
Lines(text) == Split(Strip(text))

(***************************************************************************)
(* count_first_digits                                                      *)
(***************************************************************************)

\* a faulty variant of the increment below: first_digits[key] = 1
IncrementOnce(fd, key) == [k \in DOMAIN fd \cup {key} |-> IF k = key THEN 1 ELSE fd[k]]

\* first_digits[key] += 1 on a defaultdict(int)
Increment(fd, key) ==
    [k \in DOMAIN fd \cup {key} |->
        IF k = key THEN (IF key \in DOMAIN fd THEN fd[key] ELSE 0) + 1
        ELSE fd[k]]

RECURSIVE SortedKeys(_)
\* the keys of a dict in the order of sorted(first_digits.items())
SortedKeys(S) ==
    IF S = {} THEN <<>>
    ELSE LET m == CHOOSE x \in S : \A y \in S : Code(x) <= Code(y)
         IN  <<m>> \o SortedKeys(S \ {m})

\* data_count: the values of the dict ordered by key
OrderedValues(fd) ==
    LET keys == SortedKeys(DOMAIN fd) IN [k \in 1..Len(keys) |-> fd[keys[k]]]

RECURSIVE Sum(_)
Sum(seq) == IF seq = <<>> THEN 0 ELSE Head(seq) + Sum(Tail(seq))

\* data_pct: (i / total_count) * 100 for each count
Percentages(counts, total) ==
    [k \in 1..Len(counts) |-> FMulInt(RoundRat(counts[k], total), 100)]

(***************************************************************************)
(* get_expected_counts                                                     *)
(***************************************************************************)

\* expected_probs = [i / 100 for i in BENFORD]
expected_probs == [d \in 1..9 |-> FDivInt(BENFORD[d], 100)]

\* int(i * total_count) for each probability; data_count is not used
get_expected_counts(dc, total) ==
    [d \in 1..9 |-> FTrunc(FMulInt(expected_probs[d], total))]

(***************************************************************************)
(* Inputs                                                                  *)
(***************************************************************************)

\* longest enumerated file, in characters
MaxFileLen == 4

\* most characters in an enumerated batch of count_first_digits, counting
\* one for each boundary between two tokens
MaxBatchLen == 5

\* largest total_count given to get_expected_counts
MaxTotal == 500

\* largest deviation of one observed count from its expected count
MaxDelta == 4

FileChars == {"0", "1", ".", "a", " ", "\n"}

TokenChars == {"0", "1", "9", ".", "-", "²"}

DigitName == <<"1", "2", "3", "4", "5", "6", "7", "8", "9">>

RECURSIVE Repeat(_, _)
Repeat(s, n) == IF n = 0 THEN <<>> ELSE s \o Repeat(s, n - 1)

RECURSIVE FileFrom(_, _)
\* a file with counts[d] lines holding the digit d, for d from digit to 9
FileFrom(counts, d) ==
    IF d > 9 THEN <<>>
    ELSE Repeat(<<DigitName[d], "\n">>, counts[d]) \o FileFrom(counts, d + 1)

\* first-digit counts of the longer files
BigCounts ==
    { <<1, 1, 1, 1, 1, 1, 1, 1, 1>>,
      <<7, 4, 3, 2, 2, 1, 1, 1, 1>>,
      <<1, 1, 1, 1, 1, 1, 1, 1, 14>> }

\* what f.read() may return
FileContents ==
    UNION {[1..n -> FileChars] : n \in 0..MaxFileLen}
        \cup {FileFrom(c, 1) : c \in BigCounts}

\* texts of token characters and token boundaries
BatchTexts == UNION {[1..n -> TokenChars \cup {"\n"}] : n \in 0..MaxBatchLen}

\* the argument of count_first_digits: no token, the tokens of a text, or
\* the batch ["12", "034", "7"]
Batches ==
    {<<>>} \cup {SplitLoop(t, 1, <<>>, <<>>) : t \in BatchTexts}
        \cup {<< <<"1", "2">>, <<"0", "3", "4">>, <<"7">> >>}

\* the sample totals whose expected counts chi_square is given
ChiTotals == {1, 22, 100}

ChiExpected ==
    {get_expected_counts(<<>>, n) : n \in ChiTotals}
        \cup {<<50, 50, 20, 1, 1, 1, 1, 1, 1>>}

\* the arguments of chi_square: <<data_count, expected_counts>>
ChiInputs ==
    {<<[e EXCEPT ![j] = @ + k], e>> :
        e \in ChiExpected, j \in 1..9, k \in 0..MaxDelta}
    \cup {<<[e EXCEPT ![j] = @ - k], e>> :
        e \in {x \in ChiExpected : \A d \in 1..9 : x[d] >= MaxDelta},
        j \in 1..9, k \in 1..MaxDelta}
    \cup { << <<30, 18, 12, 10, 8, 7, 6, 5, 4>>, <<30, 17, 12, 9, 7, 6, 5, 5, 4>> >>,
           << <<67, 58, 33, 1, 1, 1, 1, 1, 1>>, <<50, 50, 20, 1, 1, 1, 1, 1, 1>> >>,
           << <<1, 1, 1, 1, 1, 1, 33, 58, 67>>, <<1, 1, 1, 1, 1, 1, 20, 50, 50>> >>,
           << <<1>>, get_expected_counts(<<1>>, 1) >> }

(***************************************************************************)
(* State                                                                   *)
(***************************************************************************)

VARIABLES
    pc,               \* the function main is in, or "done", "exited", "crashed"
    count,            \* load_data: failed attempts
    content,          \* load_data: what f.read() returned
    data,             \* the list of samples
    idx,              \* count_first_digits: position of the for loop in data
    first_digits,     \* count_first_digits: the defaultdict
    data_count,
    data_pct,
    total_count,      \* -1 while unbound
    expected_counts,
    i,                \* loop variable of main's report and of chi_square
    chi_square_stat,
    verdict,          \* what chi_square returned: "unset", "True", "False"
    out,              \* what was printed and prompted, in order
    exit_status,      \* -1 while running
    exception         \* the uncaught exception, "none" if none

vars ==
    <<pc, count, content, data, idx, first_digits, data_count, data_pct,
      total_count, expected_counts, i, chi_square_stat, verdict, out,
      exit_status, exception>>

loadVars == <<count, content, data>>

countVars == <<idx, first_digits, data_count, data_pct, total_count>>

chiVars == <<i, chi_square_stat, verdict>>

\* the state before main runs
Init ==
    /\ pc = "load_data"
    /\ count = 0
    /\ content = <<>>
    /\ data = <<>>
    /\ idx = 1
    /\ first_digits = <<>>
    /\ data_count = <<>>
    /\ data_pct = <<>>
    /\ total_count = -1
    /\ expected_counts = <<>>
    /\ i = 0
    /\ chi_square_stat = FZero
    /\ verdict = "unset"
    /\ out = <<>>
    /\ exit_status = -1
    /\ exception = "none"

\* sys.exit(1)
Exit ==
    /\ pc' = "exited"
    /\ exit_status' = 1
    /\ exception' = exception

\* an exception nothing catches ends the interpreter with status 1
Raise(exc) ==
    /\ pc' = "crashed"
    /\ exit_status' = 1
    /\ exception' = exc

(***************************************************************************)
(* load_data                                                               *)
(***************************************************************************)

\* a faulty variant of the pass below: count is not incremented
LoadFailNoCount ==
    /\ pc = "load_data"
    /\ count <= RETRY_LIMIT
    /\ out' = out \o <<"prompt", "unable_to_open">>
    /\ UNCHANGED <<pc, count, content, data, exit_status, exception>>
    /\ UNCHANGED <<countVars, expected_counts, chiVars>>

\* one pass of the while loop in which open() raises IOError
LoadFail ==
    /\ pc = "load_data"
    /\ count <= RETRY_LIMIT
    /\ out' = out \o <<"prompt", "unable_to_open">>
    /\ count' = count + 1
    /\ UNCHANGED <<pc, content, data, exit_status, exception>>
    /\ UNCHANGED <<countVars, expected_counts, chiVars>>

\* one pass of the while loop in which the file opens: return lines
LoadOpen ==
    /\ pc = "load_data"
    /\ count <= RETRY_LIMIT
    /\ \E text \in FileContents :
          /\ content' = text
          /\ data' = Lines(text)
    /\ out' = Append(out, "prompt")
    /\ pc' = "count_first_digits"
    /\ UNCHANGED <<count, exit_status, exception>>
    /\ UNCHANGED <<countVars, expected_counts, chiVars>>

\* the loop ends: print "Enough!" and sys.exit(1)
LoadGiveUp ==
    /\ pc = "load_data"
    /\ ~(count <= RETRY_LIMIT)
    /\ out' = Append(out, "enough")
    /\ Exit
    /\ UNCHANGED <<loadVars, countVars, expected_counts, chiVars>>

(***************************************************************************)
(* count_first_digits                                                      *)
(***************************************************************************)

\* a faulty variant of the pass below: a bad sample is dropped, not fatal
CountSampleSkip ==
    /\ pc = "count_first_digits"
    /\ idx <= Len(data)
    /\ LET sample == data[idx] IN
       IF IsBadSample(sample)
       THEN /\ out' = Append(out, "bad_sample")
            /\ idx' = idx + 1
            /\ UNCHANGED <<pc, first_digits, exit_status, exception>>
       ELSE /\ first_digits' = Increment(first_digits, sample[1])
            /\ idx' = idx + 1
            /\ UNCHANGED <<pc, out, exit_status, exception>>
    /\ UNCHANGED <<loadVars, data_count, data_pct, total_count>>
    /\ UNCHANGED <<expected_counts, chiVars>>

\* one pass of the for loop over data
CountSample ==
    /\ pc = "count_first_digits"
    /\ idx <= Len(data)
    /\ LET sample == data[idx] IN
       IF IsBadSample(sample)
       THEN /\ out' = out \o <<"bad_sample", "integer_counts_only", "invalid_data">>
            /\ Exit
            /\ UNCHANGED <<idx, first_digits>>
       ELSE /\ first_digits' = Increment(first_digits, sample[1])
            /\ idx' = idx + 1
            /\ UNCHANGED <<pc, out, exit_status, exception>>
    /\ UNCHANGED <<loadVars, data_count, data_pct, total_count>>
    /\ UNCHANGED <<expected_counts, chiVars>>

\* after the loop: order the dict, total it, take percentages, return
CountReturn ==
    /\ pc = "count_first_digits"
    /\ idx > Len(data)
    /\ LET dc == OrderedValues(first_digits) IN
          /\ data_count' = dc
          /\ total_count' = Sum(dc)
          /\ data_pct' = Percentages(dc, Sum(dc))
    /\ pc' = "get_expected_counts"
    /\ UNCHANGED <<loadVars, idx, first_digits, out, exit_status, exception>>
    /\ UNCHANGED <<expected_counts, chiVars>>

(***************************************************************************)
(* get_expected_counts                                                     *)
(***************************************************************************)

GetExpected ==
    /\ pc = "get_expected_counts"
    /\ expected_counts' = get_expected_counts(data_count, total_count)
    /\ pc' = "report"
    /\ UNCHANGED <<loadVars, countVars, chiVars, out, exit_status, exception>>

(***************************************************************************)
(* main: the report                                                        *)
(***************************************************************************)

\* print the observed counts, the expected counts and the heading
ReportCounts ==
    /\ pc = "report"
    /\ i = 0
    /\ out' = out \o <<"observed_counts", "expected_counts", "probabilities">>
    /\ i' = 1
    /\ UNCHANGED <<pc, loadVars, countVars, expected_counts>>
    /\ UNCHANGED <<chi_square_stat, verdict, exit_status, exception>>

\* one pass of for i in range(1, 10): data_pct[i - 1] raises IndexError
\* when data_pct is shorter
ReportProbability ==
    /\ pc = "report"
    /\ i \in 1..NDIGITS
    /\ IF i - 1 < Len(data_pct)
       THEN /\ out' = Append(out, "probability")
            /\ i' = i + 1
            /\ UNCHANGED <<pc, exit_status, exception>>
       ELSE /\ Raise("IndexError")
            /\ UNCHANGED <<out, i>>
    /\ UNCHANGED <<loadVars, countVars, expected_counts>>
    /\ UNCHANGED <<chi_square_stat, verdict>>

\* main calls chi_square: chi_square_stat = 0
ChiCall ==
    /\ pc = "report"
    /\ i = NDIGITS + 1
    /\ pc' = "chi_square"
    /\ i' = 0
    /\ chi_square_stat' = FZero
    /\ UNCHANGED <<loadVars, countVars, expected_counts, verdict>>
    /\ UNCHANGED <<out, exit_status, exception>>

(***************************************************************************)
(* chi_square                                                              *)
(***************************************************************************)

\* one term of the statistic: math.pow(o - e, 2) / e
ChiTerm(o, e) == FDivInt(FFromInt((o - e) * (o - e)), e)

\* one pass of for i in range(0, 9)
ChiIter ==
    /\ pc = "chi_square"
    /\ i < NDIGITS
    /\ IF i >= Len(data_count)
       THEN /\ Raise("IndexError")
            /\ UNCHANGED <<i, chi_square_stat>>
       ELSE IF expected_counts[i + 1] = 0
       THEN /\ Raise("ZeroDivisionError")
            /\ UNCHANGED <<i, chi_square_stat>>
       ELSE /\ chi_square_stat' =
                  FAdd(chi_square_stat,
                       ChiTerm(data_count[i + 1], expected_counts[i + 1]))
            /\ i' = i + 1
            /\ UNCHANGED <<pc, exit_status, exception>>
    /\ UNCHANGED <<loadVars, countVars, expected_counts, verdict, out>>

\* print the statistic and the critical value, return the comparison
ChiReturn ==
    /\ pc = "chi_square"
    /\ i = NDIGITS
    /\ out' = out \o <<"chi_squared_statistic", "critical_value">>
    /\ verdict' = IF FLess(chi_square_stat, CRITICAL) THEN "True" ELSE "False"
    /\ pc' = "verdict"
    /\ UNCHANGED <<loadVars, countVars, expected_counts, i, chi_square_stat>>
    /\ UNCHANGED <<exit_status, exception>>

(***************************************************************************)
(* main: the verdict and the chart                                         *)
(***************************************************************************)

Verdict ==
    /\ pc = "verdict"
    /\ out' = Append(out, IF verdict = "True" THEN "matches" ELSE "does_not_match")
    /\ pc' = "bar_chart"
    /\ UNCHANGED <<loadVars, countVars, expected_counts, chiVars>>
    /\ UNCHANGED <<exit_status, exception>>

BarChart ==
    /\ pc = "bar_chart"
    /\ out' = Append(out, "chart")
    /\ pc' = "done"
    /\ exit_status' = 0
    /\ UNCHANGED <<loadVars, countVars, expected_counts, chiVars, exception>>

(***************************************************************************)
(* Specifications                                                          *)
(***************************************************************************)

\* a run of main
Next ==
    \/ LoadFail
    \/ LoadOpen
    \/ LoadGiveUp
    \/ CountSample
    \/ CountReturn
    \/ GetExpected
    \/ ReportCounts
    \/ ReportProbability
    \/ ChiCall
    \/ ChiIter
    \/ ChiReturn
    \/ Verdict
    \/ BarChart

Spec == Init /\ [][Next]_vars

\* load_data alone; the prompt is answered and the loop keeps running
NextLoad == LoadFail \/ LoadOpen \/ LoadGiveUp

SpecLoad == Init /\ [][NextLoad]_vars /\ WF_vars(NextLoad)

\* count_first_digits on a batch
InitExtract ==
    /\ pc = "count_first_digits"
    /\ data \in Batches
    /\ count = 0
    /\ content = <<>>
    /\ idx = 1
    /\ first_digits = <<>>
    /\ data_count = <<>>
    /\ data_pct = <<>>
    /\ total_count = -1
    /\ expected_counts = <<>>
    /\ i = 0
    /\ chi_square_stat = FZero
    /\ verdict = "unset"
    /\ out = <<>>
    /\ exit_status = -1
    /\ exception = "none"

NextExtract == CountSample \/ CountReturn

SpecExtract == InitExtract /\ [][NextExtract]_vars

\* get_expected_counts on a total
InitExpected ==
    /\ pc = "get_expected_counts"
    /\ total_count \in 0..MaxTotal
    /\ data_count \in {<<>>, <<1>>}
    /\ data = <<>>
    /\ count = 0
    /\ content = <<>>
    /\ idx = 1
    /\ first_digits = <<>>
    /\ data_pct = <<>>
    /\ expected_counts = <<>>
    /\ i = 0
    /\ chi_square_stat = FZero
    /\ verdict = "unset"
    /\ out = <<>>
    /\ exit_status = -1
    /\ exception = "none"

NextExpected == GetExpected

SpecExpected == InitExpected /\ [][NextExpected]_vars

\* chi_square on observed and expected counts
InitChi ==
    /\ pc = "chi_square"
    /\ \E in \in ChiInputs :
          /\ data_count = in[1]
          /\ expected_counts = in[2]
    /\ data = <<>>
    /\ count = 0
    /\ content = <<>>
    /\ idx = 1
    /\ first_digits = <<>>
    /\ data_pct = <<>>
    /\ total_count = -1
    /\ i = 0
    /\ chi_square_stat = FZero
    /\ verdict = "unset"
    /\ out = <<>>
    /\ exit_status = -1
    /\ exception = "none"

NextChi == ChiIter \/ ChiReturn

SpecChi == InitChi /\ [][NextChi]_vars

(***************************************************************************)
(* Properties                                                              *)
(***************************************************************************)

\* a token that is empty, starts with '0', contains '.' or contains a
\* character that is no digit (a digit is what str.isdigit() calls one)
InvalidToken(tok) ==
    \/ tok = <<>>
    \/ tok[1] = "0"
    \/ \E k \in 1..Len(tok) : tok[k] = "."
    \/ \E k \in 1..Len(tok) : tok[k] \notin DigitChars

\* position of the first invalid token of a batch, 0 if there is none
FirstInvalid(batch) ==
    IF \A k \in 1..Len(batch) : ~InvalidToken(batch[k]) THEN 0
    ELSE CHOOSE k \in 1..Len(batch) :
            /\ InvalidToken(batch[k])
            /\ \A l \in 1..(k - 1) : ~InvalidToken(batch[l])

\* number of tokens of a batch whose first character is the digit d
LeadingCount(batch, d) ==
    Cardinality({k \in 1..Len(batch) :
                    batch[k] # <<>> /\ batch[k][1] = DigitName[d]})

\* count_first_digits has returned to main
Returned == pc = "get_expected_counts"

\* number of prompts for a file name so far
Prompts == Cardinality({k \in 1..Len(out) : out[k] = "prompt"})

\* number of failed attempts to open a file so far
Failures == Cardinality({k \in 1..Len(out) : out[k] = "unable_to_open"})

\* what main and chi_square print of the results
ResultEvents ==
    {"observed_counts", "expected_counts", "probabilities", "probability",
     "chi_squared_statistic", "critical_value", "matches", "does_not_match",
     "chart"}

\* the step of main an output belongs to
Stage(ev) ==
    IF ev \in {"prompt", "unable_to_open", "enough"} THEN 1
    ELSE IF ev \in {"bad_sample", "integer_counts_only", "invalid_data"} THEN 2
    ELSE IF ev \in {"observed_counts", "expected_counts", "probabilities",
                    "probability"} THEN 4
    ELSE IF ev \in {"chi_squared_statistic", "critical_value"} THEN 5
    ELSE IF ev \in {"matches", "does_not_match"} THEN 6
    ELSE 7

\* the order of the steps of main
StepRank(p) ==
    CASE p = "load_data" -> 1
      [] p = "count_first_digits" -> 2
      [] p = "get_expected_counts" -> 3
      [] p = "report" -> 4
      [] p = "chi_square" -> 5
      [] p = "verdict" -> 6
      [] p = "bar_chart" -> 7
      [] OTHER -> 8

RECURSIVE Gcd(_, _)
Gcd(a, b) == IF b = 0 THEN a ELSE Gcd(b, a % b)

RECURSIVE LcmOf(_)
\* least common multiple of a sequence of positive numbers
LcmOf(seq) ==
    IF seq = <<>> THEN 1
    ELSE LET l == LcmOf(Tail(seq)) IN (Head(seq) * l) \div Gcd(Head(seq), l)

\* the sum of (o[d] - e[d])^2 / e[d] is below 15.51, in exact arithmetic
ExactBelowCritical(o, e) ==
    LET l == LcmOf(e)
        scaled == Sum([d \in 1..9 |-> (o[d] - e[d]) * (o[d] - e[d]) * (l \div e[d])])
    IN  100 * scaled < 1551 * l

\* C1: for a valid, non-empty batch count_first_digits returns nine counts
\* and nine percentages, element d for leading digit d, 0 for a digit that
\* no token starts with
C1_NineAlignedCounts ==
    (Returned /\ Len(data) > 0) =>
        /\ Len(data_count) = 9
        /\ Len(data_pct) = 9
        /\ \A d \in 1..9 :
              /\ data_count[d] = LeadingCount(data, d)
              /\ (data_pct[d] = FZero) = (LeadingCount(data, d) = 0)

\* C2: when count_first_digits returns, the returned counts sum to
\* total_count, and total_count is the number of tokens of the batch
C2_SumIsTotalIsLen ==
    Returned => (Sum(data_count) = total_count /\ total_count = Len(data))

\* a batch of two tokens with different first digits has been counted
C2_Witness ==
    /\ Returned
    /\ Len(data) = 2
    /\ Len(data_count) = 2

C4_ExpectedIsFloor ==
    pc = "report" =>
        /\ Len(expected_counts) = 9
        /\ \A d \in 1..9 :
              expected_counts[d] = (BENFORD_TENTHS[d] * total_count) \div 1000
        /\ Sum(expected_counts) <= total_count
        /\ (total_count = 100 =>
              expected_counts = <<30, 17, 12, 9, 7, 6, 5, 5, 4>>)

\* C5: chi_square never divides by an expected count of zero, and no
\* statistic or verdict is produced when an expected count is zero
C5_NoDivisionByZero ==
    /\ exception # "ZeroDivisionError"
    /\ (\E d \in 1..Len(expected_counts) : expected_counts[d] = 0) =>
          verdict = "unset"

\* C6: count_first_digits never returns a result for an empty batch
C6_EmptyBatchRaises == data = <<>> => ~Returned

\* C7: with nine observed counts and nine positive expected counts,
\* chi_square returns True exactly when the statistic is below 15.51
C7_VerdictIsExactComparison ==
    (pc = "verdict" /\ \A d \in 1..9 : expected_counts[d] > 0) =>
        ((verdict = "True") = ExactBelowCritical(data_count, expected_counts))

\* what holds of load_data in every state: at most six prompts; it exits
\* only after six failed attempts, with a non-zero status; when it returns,
\* the last thing it did is the prompt of the attempt that succeeded, its
\* result is the lines of that file and the program has not exited
LoadDataSafe ==
    /\ Prompts <= 6
    /\ pc = "exited" => (Prompts = 6 /\ Failures = 6 /\ exit_status = 1)
    /\ pc = "count_first_digits" =>
          /\ out[Len(out)] = "prompt"
          /\ Failures = Prompts - 1
          /\ data = Split(Strip(content))
          /\ exit_status = -1

\* C8: load_data terminates, by returning the lines of the file that opened
\* or, after the first attempt and five retries have failed, by exiting
\* with a non-zero status
C8_LoadDataTerminates == []LoadDataSafe /\ <>(pc # "load_data")

\* load_data has given up after six failed attempts
C8_Witness == pc = "exited" /\ Failures = 6

\* the batch main works on has an invalid token
BatchInvalid == pc # "load_data" /\ FirstInvalid(data) # 0

\* what holds of main in every state: what it has printed is in the order
\* of its steps, and nothing of the results is printed, nor a verdict
\* reached, for a batch with an invalid token, whose run ends with status 1
MainSafe ==
    /\ \A j, k \in 1..Len(out) : j < k => Stage(out[j]) <= Stage(out[k])
    /\ BatchInvalid =>
          /\ pc \in {"count_first_digits", "exited"}
          /\ \A k \in 1..Len(out) : out[k] \notin ResultEvents
          /\ verdict = "unset"
          /\ expected_counts = <<>>
          /\ pc = "exited" => exit_status = 1

\* main moves from a step to the next one only, or ends
MainStep ==
    pc' # pc =>
        \/ StepRank(pc') = StepRank(pc) + 1
        \/ pc' \in {"exited", "crashed"}

\* C9: main runs load_data, count_first_digits, get_expected_counts, the
\* report, chi_square and the verdict in this order, and a batch with an
\* invalid token ends the run with status 1 before anything is reported
C9_MainOrder == []MainSafe /\ [][MainStep]_vars

\* a run was ended by an invalid token that follows a valid one
C9_Witness ==
    /\ pc = "exited"
    /\ Len(data) = 2
    /\ FirstInvalid(data) = 2

\* C10: the list load_data returns is never empty; an empty or blank file
\* gives [''], which is rejected, so main never counts zero tokens and
\* never has a total_count of 0
C10_NeverZeroTokens ==
    (pc # "load_data" /\ Failures = Prompts - 1) =>
        /\ Len(data) >= 1
        /\ (\A k \in 1..Len(content) : content[k] \in Whitespace) =>
              /\ data = << <<>> >>
              /\ pc \in {"count_first_digits", "exited"}
        /\ total_count # 0
        /\ StepRank(pc) \in 3..7 => total_count >= 1

\* a blank file was read and its single empty sample rejected
C10_Witness ==
    /\ pc = "exited"
    /\ Len(content) = 2
    /\ \A k \in 1..Len(content) : content[k] \in Whitespace
    /\ out[Len(out)] = "invalid_data"

====
